---- MODULE Spec2Model ----
(***************************************************************************)
(* Model of func.py: an HTTP function handler offering create, read,       *)
(* update and delete of rows of one "users" table through a pooled         *)
(* database connection.                                                    *)
(*                                                                         *)
(* Python strings are sequences of symbols.  A path is a sequence over     *)
(* PathAlphabet; the symbol "users" stands for the five characters of the  *)
(* literal, every other symbol for one character that is not '/'.          *)
(***************************************************************************)
EXTENDS Naturals, Sequences, FiniteSets

VARIABLES
    users,   \* the committed rows of table users, in heap order
    req,     \* one record per handler invocation slot
    others,  \* connections held by invocations that are not tracked one by one
    hist     \* history: per id, the last committed successful change

vars == <<users, req, others, hist>>

----------------------------------------------------------------------------
\* Bounds of the model.

\* tracked concurrent invocations
NReq == 2
\* longest request path, in symbols
MaxPathLen == 5

\* oracledb.create_pool(..., max=10)
PoolMax == 10

----------------------------------------------------------------------------
\* Python values.

\* Python None (and SQL NULL): a reserved string no request can carry.
None == <<"None">>
EmptyStr == <<>>
Str(s) == <<s>>
\* marks a key that the JSON object does not have
Missing == <<"Missing">>

Falsy(v) == v = None \/ v = EmptyStr

\* no exception / the exceptions the handlers raise
NoError == [type |-> "", names |-> <<>>]
KeyErrorNoKeys == [type |-> "KeyError", names |-> <<>>]
JSONDecodeError == [type |-> "JSONDecodeError", names |-> <<>>]
AttributeError == [type |-> "AttributeError", names |-> <<>>]
\* ValueError("Missing required field(s): " + the names listed)
ValueErrorMissing(names) == [type |-> "ValueError", names |-> names]
\* the driver's error for a violated unique constraint
IntegrityError == [type |-> "IntegrityError", names |-> <<>>]

\* fdk response.Response with a JSON body; rows holds the user objects
NoResponse == [kind |-> "none", message |-> "", rows |-> <<>>]
\* handler() fell off its if/elif chain: the Python function returns None
ReturnedNone == [kind |-> "null", message |-> "", rows |-> <<>>]
MessageResponse(m) == [kind |-> "message", message |-> m, rows |-> <<>>]
UserResponse(row) == [kind |-> "user", message |-> "", rows |-> <<row>>]
ListResponse(rows) == [kind |-> "list", message |-> "", rows |-> rows]

----------------------------------------------------------------------------
\* Path parsing: path.strip('/').split('/')

RECURSIVE LStrip(_)
LStrip(s) == IF s # <<>> /\ Head(s) = "/" THEN LStrip(Tail(s)) ELSE s

RECURSIVE RStrip(_)
RStrip(s) ==
    IF s # <<>> /\ s[Len(s)] = "/" THEN RStrip(SubSeq(s, 1, Len(s) - 1)) ELSE s

Strip(s) == RStrip(LStrip(s))

\* str.split('/'): every '/' separates; "" splits into one empty segment
RECURSIVE Split(_)
Split(s) ==
    IF s = <<>> THEN << <<>> >>
    ELSE LET rest == Split(Tail(s))
         IN  IF Head(s) = "/" THEN << <<>> >> \o rest
             ELSE << <<Head(s)>> \o Head(rest) >> \o Tail(rest)

\* PathUserId with the literal looked for in the first segment, not in the
\* one before the last
PathUserIdFromFront(path, default) ==
    LET path_parts == Split(Strip(path))
        n == Len(path_parts)
    IN  IF n >= 2 /\ path_parts[1] = <<"users">> THEN path_parts[2] ELSE default

\* the identifier of the path, or default when the path names none
PathUserId(path, default) ==
    LET path_parts == Split(Strip(path))
        n == Len(path_parts)
    IN  IF n >= 2 /\ path_parts[n - 1] = <<"users">> THEN path_parts[n] ELSE default

----------------------------------------------------------------------------
\* Payload.

\* json.loads: a body is empty, not JSON, a JSON array, or a JSON object
JsonLoadsFails(body) == body.kind = "malformed"
IsDict(body) == body.kind = "object"

\* dict.get(key): None when the key is absent
Get(v) == IF v = Missing THEN None ELSE v

----------------------------------------------------------------------------
\* Statements.

NoStmt == [kind |-> "NONE", bind |-> <<>>]
\* InsertStmt with first_name and last_name bound in the wrong order
InsertStmtSwapped(user_id, first_name, last_name, username) ==
    [kind |-> "INSERT", bind |-> <<user_id, last_name, first_name, username>>]
InsertStmt(user_id, first_name, last_name, username) ==
    [kind |-> "INSERT", bind |-> <<user_id, first_name, last_name, username>>]
SelectOneStmt(user_id) == [kind |-> "SELECT_ONE", bind |-> <<user_id>>]
SelectAllStmt == [kind |-> "SELECT_ALL", bind |-> <<>>]
UpdateStmt(user_id, first_name, last_name, username) ==
    [kind |-> "UPDATE", bind |-> <<first_name, last_name, username, user_id>>]
DeleteStmt(user_id) == [kind |-> "DELETE", bind |-> <<user_id>>]

\* what a handler has done when it reaches dbpool.acquire(), raises or returns
Raise(e) == [pc |-> "raised", stmt |-> NoStmt, err |-> e, resp |-> NoResponse]
ToPool(s) == [pc |-> "acquire", stmt |-> s, err |-> NoError, resp |-> NoResponse]
ReturnNone == [pc |-> "returned", stmt |-> NoStmt, err |-> NoError, resp |-> ReturnedNone]

----------------------------------------------------------------------------
\* The handlers, up to the point where they ask the pool for a connection.
\* A request is [method, path, body]; a body is
\* [kind, first_name, last_name, username], the three fields read when
\* kind = "object".

RequiredFields == <<"first_name", "last_name", "username">>

\* HandlePost without the check of username
HandlePostSkipsUsername(in) ==
    IF in.body.kind = "empty" THEN Raise(KeyErrorNoKeys)
    ELSE IF JsonLoadsFails(in.body) THEN Raise(JSONDecodeError)
    ELSE LET user_id == PathUserId(in.path, EmptyStr)
         IN  IF user_id = EmptyStr THEN Raise(ValueErrorMissing(<<"user_id">>))
             ELSE IF ~IsDict(in.body) THEN Raise(AttributeError)
             ELSE LET first_name == Get(in.body.first_name)
                      last_name == Get(in.body.last_name)
                      username == Get(in.body.username)
                  IN  IF Falsy(first_name) \/ Falsy(last_name)
                      THEN Raise(ValueErrorMissing(RequiredFields))
                      ELSE ToPool(InsertStmt(user_id, first_name, last_name, username))

HandlePost(in) ==
    IF in.body.kind = "empty" THEN Raise(KeyErrorNoKeys)
    ELSE IF JsonLoadsFails(in.body) THEN Raise(JSONDecodeError)
    ELSE LET user_id == PathUserId(in.path, EmptyStr)
         IN  IF user_id = EmptyStr THEN Raise(ValueErrorMissing(<<"user_id">>))
             ELSE IF ~IsDict(in.body) THEN Raise(AttributeError)
             ELSE LET first_name == Get(in.body.first_name)
                      last_name == Get(in.body.last_name)
                      username == Get(in.body.username)
                  IN  IF Falsy(first_name) \/ Falsy(last_name) \/ Falsy(username)
                      THEN Raise(ValueErrorMissing(RequiredFields))
                      ELSE ToPool(InsertStmt(user_id, first_name, last_name, username))

HandleGet(in) ==
    LET user_id == PathUserId(in.path, None)
    IN  IF Falsy(user_id) THEN ToPool(SelectAllStmt)
        ELSE ToPool(SelectOneStmt(user_id))

UpdateUser(in) ==
    LET user_id == PathUserId(in.path, None)
    IN  IF Falsy(user_id) THEN Raise(ValueErrorMissing(<<"user_id">>))
        ELSE IF ~IsDict(in.body) THEN Raise(AttributeError)
        ELSE ToPool(UpdateStmt(user_id, Get(in.body.first_name),
                               Get(in.body.last_name), Get(in.body.username)))

HandlePut(in) ==
    IF in.body.kind = "empty" THEN Raise(KeyErrorNoKeys)
    ELSE IF JsonLoadsFails(in.body) THEN Raise(JSONDecodeError)
    ELSE UpdateUser(in)

HandleDelete(in) ==
    LET user_id == PathUserId(in.path, None)
    IN  IF Falsy(user_id) THEN Raise(ValueErrorMissing(<<"user_id">>))
        ELSE ToPool(DeleteStmt(user_id))

\* Handler with GET dispatched to handle_delete
HandlerGetDeletes(in) ==
    IF in.method = "POST" THEN HandlePost(in)
    ELSE IF in.method = "GET" THEN HandleDelete(in)
    ELSE IF in.method = "PUT" THEN HandlePut(in)
    ELSE IF in.method = "DELETE" THEN HandleDelete(in)
    ELSE ReturnNone

\* handler(): no else branch, so any other method returns None
Handler(in) ==
    IF in.method = "POST" THEN HandlePost(in)
    ELSE IF in.method = "GET" THEN HandleGet(in)
    ELSE IF in.method = "PUT" THEN HandlePut(in)
    ELSE IF in.method = "DELETE" THEN HandleDelete(in)
    ELSE ReturnNone

----------------------------------------------------------------------------
\* The database, as the statements of func.py use it.

\* CREATED_ON of a row whose timestamp is NULL
NullTs == 0
\* the timestamp the database assigns to CREATED_ON on insert
SysTimestamp == 1

\* the driver binds '' and None as NULL
BindValue(v) == IF v = EmptyStr THEN None ELSE v

StmtId(s) ==
    IF s.kind = "UPDATE" THEN s.bind[4]
    ELSE IF s.kind \in {"INSERT", "SELECT_ONE", "DELETE"} THEN s.bind[1]
    ELSE None

\* WHERE ID = :id
Matching(rows, id) == {i \in 1..Len(rows) : rows[i].ID = id}

\* the unique constraint on users.ID
UniqueViolation(rows, id) == Matching(rows, id) # {}

\* INSERT INTO users (ID, FIRST_NAME, LAST_NAME, USERNAME) VALUES (:1, :2, :3, :4)
InsertRow(rows, bind) ==
    Append(rows, [ID |-> BindValue(bind[1]),
                  FIRST_NAME |-> BindValue(bind[2]),
                  LAST_NAME |-> BindValue(bind[3]),
                  USERNAME |-> BindValue(bind[4]),
                  CREATED_ON |-> SysTimestamp])

\* UPDATE users SET FIRST_NAME = :1, LAST_NAME = :2, USERNAME = :3 WHERE ID = :4
UpdateRows(rows, bind) ==
    [i \in 1..Len(rows) |->
        IF rows[i].ID = bind[4]
        THEN [rows[i] EXCEPT !.FIRST_NAME = BindValue(bind[1]),
                             !.LAST_NAME = BindValue(bind[2]),
                             !.USERNAME = BindValue(bind[3])]
        ELSE rows[i]]

\* DELETE FROM users WHERE ID = :1
DeleteRows(rows, bind) ==
    LET keep(row) == row.ID # bind[1] IN SelectSeq(rows, keep)

\* what commit makes visible: the effect of the statement executed
Committed(rows, s, rowcount) ==
    IF s.kind = "INSERT" THEN InsertRow(rows, s.bind)
    ELSE IF s.kind = "UPDATE" /\ rowcount > 0 THEN UpdateRows(rows, s.bind)
    ELSE IF s.kind = "DELETE" /\ rowcount > 0 THEN DeleteRows(rows, s.bind)
    ELSE rows

\* datetime.isoformat()
IsoFormat(t) ==
    IF t = SysTimestamp THEN Str("2026-11-03T00:00:00") ELSE Str("1970-01-01T00:00:00")

\* rowfactory: a dict keyed by column name, CREATED_ON as ISO text when set
RowFactory(row) ==
    [ID |-> row.ID,
     FIRST_NAME |-> row.FIRST_NAME,
     LAST_NAME |-> row.LAST_NAME,
     USERNAME |-> row.USERNAME,
     CREATED_ON |-> IF row.CREATED_ON # NullTs THEN IsoFormat(row.CREATED_ON) ELSE None]

\* the orders in which a SELECT without ORDER BY may return rows
Orders(rows) ==
    {p \in [1..Len(rows) -> 1..Len(rows)] : \A i, j \in 1..Len(rows) : p[i] = p[j] => i = j}

----------------------------------------------------------------------------
\* History of the table, kept beside the program's state: per id, the last
\* committed statement that changed a row and, for an insert, the values the
\* POST submitted.  A PUT or DELETE that matched no row changes nothing.

NeverEntry(id) == [id |-> id, last |-> "never", vals |-> <<>>]

HistGet(h, id) ==
    IF \E e \in h : e.id = id THEN CHOOSE e \in h : e.id = id ELSE NeverEntry(id)

HistSet(h, e) == {x \in h : x.id # e.id} \cup {e}

\* the values a body submits, as the client wrote them
Submitted(body) == <<Get(body.first_name), Get(body.last_name), Get(body.username)>>

HistAfter(h, q) ==
    LET id == StmtId(q.stmt)
    IN  IF q.stmt.kind = "INSERT"
        THEN HistSet(h, [id |-> id, last |-> "POST", vals |-> Submitted(q.body)])
        ELSE IF q.stmt.kind = "DELETE" /\ q.rowcount > 0
        THEN HistSet(h, [id |-> id, last |-> "DELETE", vals |-> <<>>])
        ELSE IF q.stmt.kind = "UPDATE" /\ q.rowcount > 0
        THEN HistSet(h, [id |-> id, last |-> "PUT", vals |-> <<>>])
        ELSE h

----------------------------------------------------------------------------
\* Invocations.

NoBody == [kind |-> "empty", first_name |-> Missing, last_name |-> Missing,
           username |-> Missing]

\* a slot no invocation uses.  trace, saw, sawEmpty and wrote record what the
\* invocation did and found: its pool and statement events in order, the
\* history of its id and whether the table was empty when it executed, and
\* whether its commit changed the table.
IdleReq ==
    [pc |-> "idle", method |-> "", path |-> <<>>, body |-> NoBody,
     stmt |-> NoStmt, err |-> NoError, resp |-> NoResponse,
     conn |-> FALSE, rowcount |-> 0,
     trace |-> <<>>, saw |-> NeverEntry(None), sawEmpty |-> FALSE, wrote |-> FALSE]

Slots == DOMAIN req

\* connections checked out of dbpool
InUse == Cardinality({q \in Slots : req[q].conn}) + others

\* dbpool.acquire() waits while all max connections are out
PoolHasFree == InUse < PoolMax

\* handler(ctx, data) runs to its first pool access, its raise or its return
Invoke(r, in) ==
    /\ req[r].pc = "idle"
    /\ LET h == Handler(in)
       IN  req' = [req EXCEPT ![r] =
                      [IdleReq EXCEPT !.pc = h.pc, !.method = in.method,
                                      !.path = in.path, !.body = in.body,
                                      !.stmt = h.stmt, !.err = h.err,
                                      !.resp = h.resp]]
    /\ UNCHANGED <<users, others, hist>>

\* with dbpool.acquire() as dbconnection
Acquire(r) ==
    /\ req[r].pc = "acquire"
    /\ PoolHasFree
    /\ req' = [req EXCEPT ![r].pc = "execute", ![r].conn = TRUE,
                          ![r].trace = Append(@, "acquire")]
    /\ UNCHANGED <<users, others, hist>>

\* a statement executed and not yet committed
Pending(q) == req[q].pc = "commit"

\* execute() waits for the row lock or the index entry another transaction holds
Blocked(r) ==
    LET s == req[r].stmt
    IN  \E q \in Slots \ {r} :
            /\ Pending(q)
            /\ StmtId(req[q].stmt) = StmtId(s)
            /\ \/ /\ s.kind = "INSERT"
                  /\ \/ req[q].stmt.kind = "INSERT"
                     \/ req[q].stmt.kind = "DELETE" /\ req[q].rowcount > 0
               \/ /\ s.kind \in {"UPDATE", "DELETE"}
                  /\ req[q].stmt.kind \in {"UPDATE", "DELETE"}
                  /\ req[q].rowcount > 0

\* RaiseDatabaseError without the with blocks: the connection is not released
RaiseDatabaseErrorLeaks(q, e) ==
    [q EXCEPT !.pc = "raised", !.err = e, !.trace = Append(@, "execute")]

\* the exception leaves both with blocks (the connection goes back to the
\* pool) and is printed and re-raised
RaiseDatabaseError(q, e) ==
    [q EXCEPT !.pc = "raised", !.err = e, !.conn = FALSE,
              !.trace = @ \o <<"execute", "release">>]

\* ExecInsert on a table whose ID is not checked for uniqueness
ExecInsertUnchecked(rows, q) ==
    {[q EXCEPT !.pc = "commit", !.rowcount = 1, !.trace = Append(@, "execute")]}

\* dbcursor.execute(INSERT ...)
ExecInsert(rows, q) ==
    IF UniqueViolation(rows, StmtId(q.stmt))
    THEN {RaiseDatabaseError(q, IntegrityError)}
    ELSE {[q EXCEPT !.pc = "commit", !.rowcount = 1, !.trace = Append(@, "execute")]}

\* ExecWrite that treats a statement matching no row as an error
ExecWriteRequiresRow(rows, q) ==
    IF Matching(rows, StmtId(q.stmt)) = {}
    THEN {RaiseDatabaseError(q, [type |-> "LookupError", names |-> <<>>])}
    ELSE {[q EXCEPT !.pc = "commit",
                    !.rowcount = Cardinality(Matching(rows, StmtId(q.stmt))),
                    !.trace = Append(@, "execute")]}

\* dbcursor.execute(UPDATE ... / DELETE ...): rows that do not exist are no error
ExecWrite(rows, q) ==
    {[q EXCEPT !.pc = "commit",
               !.rowcount = Cardinality(Matching(rows, StmtId(q.stmt))),
               !.trace = Append(@, "execute")]}

\* ExecSelectOne that raises when fetchone finds no row
ExecSelectOneRaises(rows, q) ==
    LET found == Matching(rows, StmtId(q.stmt))
    IN  IF found = {}
        THEN {RaiseDatabaseError(q, [type |-> "LookupError", names |-> <<>>])}
        ELSE {[q EXCEPT !.pc = "release", !.trace = Append(@, "execute"),
                        !.resp = UserResponse(RowFactory(rows[i]))] : i \in found}

\* read_user: execute, fetchone, the row as a dict or the not-found message
ExecSelectOne(rows, q) ==
    LET found == Matching(rows, StmtId(q.stmt))
    IN  IF found = {}
        THEN {[q EXCEPT !.pc = "release", !.trace = Append(@, "execute"),
                        !.resp = MessageResponse("User not found")]}
        ELSE {[q EXCEPT !.pc = "release", !.trace = Append(@, "execute"),
                        !.resp = UserResponse(RowFactory(rows[i]))] : i \in found}

\* read_all_users: execute, fetchall, the rows as a list of dicts
ExecSelectAll(rows, q) ==
    {[q EXCEPT !.pc = "release", !.trace = Append(@, "execute"),
               !.resp = ListResponse([i \in 1..Len(rows) |-> RowFactory(rows[p[i]])])]
        : p \in Orders(rows)}

ExecOutcomes(rows, q) ==
    IF q.stmt.kind = "INSERT" THEN ExecInsert(rows, q)
    ELSE IF q.stmt.kind \in {"UPDATE", "DELETE"} THEN ExecWrite(rows, q)
    ELSE IF q.stmt.kind = "SELECT_ONE" THEN ExecSelectOne(rows, q)
    ELSE ExecSelectAll(rows, q)

\* dbcursor.execute(sql_statement, bind_vars)
Execute(r) ==
    /\ req[r].pc = "execute"
    /\ ~Blocked(r)
    /\ \E n \in ExecOutcomes(users, req[r]) :
          req' = [req EXCEPT ![r] =
                     [n EXCEPT !.saw = HistGet(hist, StmtId(n.stmt)),
                               !.sawEmpty = (users = <<>>)]]
    /\ UNCHANGED <<users, others, hist>>

SuccessMessage(kind) ==
    IF kind = "INSERT" THEN "User created successfully"
    ELSE IF kind = "UPDATE" THEN "User updated successfully"
    ELSE "User deleted successfully"

\* dbconnection.commit(), then the success response is built
Commit(r) ==
    /\ req[r].pc = "commit"
    /\ users' = Committed(users, req[r].stmt, req[r].rowcount)
    /\ hist' = HistAfter(hist, req[r])
    /\ req' = [req EXCEPT ![r].pc = "release",
                          ![r].trace = Append(@, "commit"),
                          ![r].wrote = (users' # users),
                          ![r].resp = MessageResponse(SuccessMessage(req[r].stmt.kind))]
    /\ UNCHANGED others

\* return: both with blocks exit and the connection goes back to the pool
Release(r) ==
    /\ req[r].pc = "release"
    /\ req' = [req EXCEPT ![r].pc = "returned", ![r].conn = FALSE,
                          ![r].trace = Append(@, "release")]
    /\ UNCHANGED <<users, others, hist>>

\* the runtime takes the response or the exception; the slot is free again
Return(r) ==
    /\ req[r].pc \in {"returned", "raised"}
    /\ req' = [req EXCEPT ![r] = IdleReq]
    /\ UNCHANGED <<users, others, hist>>

\* an invocation that is not tracked takes a connection / gives it back
OtherAcquire ==
    /\ PoolHasFree
    /\ others' = others + 1
    /\ UNCHANGED <<users, req, hist>>

OtherRelease ==
    /\ others > 0
    /\ others' = others - 1
    /\ UNCHANGED <<users, req, hist>>

----------------------------------------------------------------------------
\* Requests.

Body(first_name, last_name, username) ==
    [kind |-> "object", first_name |-> first_name, last_name |-> last_name,
     username |-> username]
Malformed == [NoBody EXCEPT !.kind = "malformed"]
ArrayBody == [NoBody EXCEPT !.kind = "array"]

Ann == Body(Str("Ann"), Str("Lee"), Str("ann"))
Bob == Body(Str("Bob"), Str("Ray"), Str("bob"))

\* /users and /users/{id}
UsersPath == <<"/", "users">>
UserPath(id) == <<"/", "users", "/">> \o id

Request(method, path, body) == [method |-> method, path |-> path, body |-> body]

Id1 == Str("1")
Id2 == Str("2")

\* the row a committed POST /users/2 with body Bob leaves
BobRow == InsertRow(<<>>, InsertStmt(Id2, Str("Bob"), Str("Ray"), Str("bob")).bind)
BobHist == {[id |-> Id2, last |-> "POST", vals |-> Submitted(Bob)]}

\* the requests of the concurrent specification
Requests ==
    {Request("POST", UserPath(Id1), Ann),
     Request("PUT", UserPath(Id1), Bob),
     Request("DELETE", UserPath(Id1), NoBody),
     Request("GET", UserPath(Id1), NoBody),
     Request("GET", UsersPath, NoBody)}

\* the table is empty or holds the user an earlier POST /users/2 created
InitTable ==
    \/ users = <<>> /\ hist = {}
    \/ users = BobRow /\ hist = BobHist

Init ==
    /\ InitTable
    /\ req = [r \in 1..NReq |-> IdleReq]
    /\ others = 0

Next ==
    \/ \E r \in 1..NReq, in \in Requests : Invoke(r, in)
    \/ \E r \in 1..NReq : Acquire(r)
    \/ \E r \in 1..NReq : Execute(r)
    \/ \E r \in 1..NReq : Commit(r)
    \/ \E r \in 1..NReq : Release(r)
    \/ \E r \in 1..NReq : Return(r)

Spec == Init /\ [][Next]_vars

----------------------------------------------------------------------------
\* One invocation, with every path up to MaxPathLen symbols and every shape
\* of body, on a table that is empty or holds user 1.

PathAlphabet == {"/", "users", "1"}

Paths == UNION {[1..n -> PathAlphabet] : n \in 0..MaxPathLen}

Methods == {"POST", "GET", "PUT", "DELETE", "PATCH"}

FieldValues(name) == {Missing, EmptyStr, Str(name)}

Bodies ==
    {NoBody, Malformed, ArrayBody}
    \cup {Body(f, l, u) : f \in FieldValues("Ann"), l \in FieldValues("Lee"),
                          u \in FieldValues("ann")}

SingleRequests ==
    {Request(m, p, b) : m \in Methods, p \in Paths, b \in {NoBody, Ann}}
    \cup {Request(m, p, b) : m \in Methods, p \in {UsersPath, UserPath(Id1)}, b \in Bodies}

\* the row a committed POST /users/1 with body Bob leaves
BobRow1 == InsertRow(<<>>, InsertStmt(Id1, Str("Bob"), Str("Ray"), Str("bob")).bind)
BobHist1 == {[id |-> Id1, last |-> "POST", vals |-> Submitted(Bob)]}

InitSingle ==
    /\ \/ users = <<>> /\ hist = {}
       \/ users = BobRow1 /\ hist = BobHist1
    /\ req = [r \in {1} |-> IdleReq]
    /\ others = 0

NextSingle ==
    \/ \E in \in SingleRequests : Invoke(1, in)
    \/ Acquire(1)
    \/ Execute(1)
    \/ Commit(1)
    \/ Release(1)

SpecSingle == InitSingle /\ [][NextSingle]_vars

----------------------------------------------------------------------------
\* Concurrent POSTs on an empty table, one per slot.

NPost == NReq + 1

PostRequests ==
    {Request("POST", UserPath(Id1), Ann),
     Request("POST", UserPath(Id1), Bob),
     Request("POST", UserPath(Id2), Ann)}

InitPost ==
    /\ users = <<>>
    /\ hist = {}
    /\ req = [r \in 1..NPost |-> IdleReq]
    /\ others = 0

NextPost ==
    \/ \E r \in 1..NPost, in \in PostRequests : Invoke(r, in)
    \/ \E r \in 1..NPost : Acquire(r)
    \/ \E r \in 1..NPost : Execute(r)
    \/ \E r \in 1..NPost : Commit(r)
    \/ \E r \in 1..NPost : Release(r)

SpecPost == InitPost /\ [][NextPost]_vars

----------------------------------------------------------------------------
\* The pool under load: the tracked invocations beside any number of others.

PoolRequests ==
    {Request("POST", UserPath(Id1), Ann),
     Request("POST", UsersPath, Ann),
     Request("DELETE", UserPath(Id1), NoBody),
     Request("GET", UserPath(Id1), NoBody)}

InitPool ==
    /\ users = <<>>
    /\ hist = {}
    /\ req = [r \in 1..NReq |-> IdleReq]
    /\ others = 0

NextPool ==
    \/ \E r \in 1..NReq, in \in PoolRequests : Invoke(r, in)
    \/ \E r \in 1..NReq : Acquire(r)
    \/ \E r \in 1..NReq : Execute(r)
    \/ \E r \in 1..NReq : Commit(r)
    \/ \E r \in 1..NReq : Release(r)
    \/ \E r \in 1..NReq : Return(r)
    \/ OtherAcquire
    \/ OtherRelease

SpecPool == InitPool /\ [][NextPool]_vars

----------------------------------------------------------------------------
\* Properties.

Ended(q) == q.pc \in {"returned", "raised"}
\* the statement has been executed and the response (if any) is decided
Answered(q) == q.pc \in {"release", "returned"}

\* C1: a GET /users/{id} that reads the table after a POST of that id
\* committed, with no PUT or DELETE of that id committed since, answers with
\* a user object whose ID, FIRST_NAME, LAST_NAME and USERNAME are the id and
\* the values the POST submitted, and whose CREATED_ON is not null.
C1_PostThenGet ==
    \A r \in DOMAIN req :
        LET q == req[r]
        IN  (/\ q.method = "GET"
             /\ q.stmt.kind = "SELECT_ONE"
             /\ q.pc \in {"release", "returned", "raised"}
             /\ q.saw.last = "POST"
             /\ \A i \in 1..3 : ~Falsy(q.saw.vals[i]))
            => /\ q.pc # "raised"
               /\ q.resp.kind = "user"
               /\ q.path = UserPath(q.resp.rows[1].ID)
               /\ q.resp.rows[1].FIRST_NAME = q.saw.vals[1]
               /\ q.resp.rows[1].LAST_NAME = q.saw.vals[2]
               /\ q.resp.rows[1].USERNAME = q.saw.vals[3]
               /\ q.resp.rows[1].CREATED_ON # None

\* C1's case: a GET has answered for an id whose last change is a POST
C1_Witness ==
    \E r \in DOMAIN req :
        /\ req[r].method = "GET"
        /\ req[r].pc = "returned"
        /\ req[r].saw.last = "POST"
        /\ req[r].saw.id = Id1
        /\ req[r].resp.kind = "user"

\* C6: a well-formed PUT or DELETE of an id that has no row (never created,
\* or deleted since) matches no row, changes nothing in the table, does not
\* fail, and answers with its success message.
C6_MissingIdSucceeds ==
    \A r \in DOMAIN req :
        LET q == req[r]
        IN  (/\ q.method \in {"PUT", "DELETE"}
             /\ q.trace # <<>>
             /\ q.pc \in {"commit", "release", "returned", "raised"}
             /\ q.saw.last \in {"never", "DELETE"})
            => /\ q.pc # "raised"
               /\ q.rowcount = 0
               /\ ~q.wrote
               /\ Answered(q) =>
                    q.resp = MessageResponse(IF q.method = "PUT"
                                             THEN "User updated successfully"
                                             ELSE "User deleted successfully")

\* C6's case: a PUT and a DELETE of an absent id have both returned
C6_Witness ==
    /\ \E r \in DOMAIN req :
        /\ req[r].method = "PUT"
        /\ req[r].pc = "returned"
        /\ req[r].saw.last = "never"
    /\ \E r \in DOMAIN req :
        /\ req[r].method = "DELETE"
        /\ req[r].pc = "returned"
        /\ req[r].saw.last = "DELETE"
    /\ users # <<>>

\* C7: a GET /users/{id} of an id that has no row, never created or deleted
\* with no POST since, answers "User not found" and raises nothing; a
\* GET /users that finds the table empty answers with the empty array.
C7_AbsentIsNotFound ==
    \A r \in DOMAIN req :
        LET q == req[r]
        IN  (q.method = "GET" /\ q.pc # "idle")
            => /\ q.pc # "raised"
               /\ (q.trace # <<>> /\ q.pc # "execute")
                    => /\ (q.stmt.kind = "SELECT_ONE" /\ q.saw.last \in {"never", "DELETE"})
                            => q.resp = MessageResponse("User not found")
                       /\ (q.stmt.kind = "SELECT_ALL" /\ q.sawEmpty)
                            => q.resp = ListResponse(<<>>)

\* C7's case: a GET of a deleted id has returned while a GET /users of the
\* empty table has returned too
C7_Witness ==
    /\ \E r \in DOMAIN req :
        /\ req[r].stmt.kind = "SELECT_ONE"
        /\ req[r].pc = "returned"
        /\ req[r].saw.last = "DELETE"
    /\ \E r \in DOMAIN req :
        /\ req[r].stmt.kind = "SELECT_ALL"
        /\ req[r].pc = "returned"
        /\ req[r].sawEmpty


\* the slots whose POST reached the INSERT of id
Inserting(id) == {r \in DOMAIN req : req[r].stmt.kind = "INSERT" /\ StmtId(req[r].stmt) = id}
\* those whose INSERT was executed without error
Inserted(id) == {r \in Inserting(id) : req[r].pc \in {"commit", "release", "returned"}}

\* C2: the table never holds two rows with one id.  Among concurrent POSTs
\* on an empty table, those of one id: at most one gets past its INSERT,
\* each of the others fails with the database's uniqueness error and with
\* nothing else, and once all have ended exactly one has returned
\* "User created successfully".  A POST whose id no other POST carries
\* succeeds.
C2_OneInsertPerId ==
    /\ \A i, j \in 1..Len(users) : users[i].ID = users[j].ID => i = j
    /\ \A id \in {Id1, Id2} :
        /\ Cardinality(Inserted(id)) <= 1
        /\ \A r \in Inserting(id) :
              req[r].pc = "raised" =>
                  /\ req[r].err = IntegrityError
                  /\ Inserted(id) \ {r} # {}
        /\ (Inserting(id) # {} /\ \A r \in Inserting(id) : Ended(req[r])) =>
              Cardinality({r \in Inserting(id) :
                              /\ req[r].pc = "returned"
                              /\ req[r].resp = MessageResponse("User created successfully")})
                  = 1

\* C2's case: every slot has ended; two POSTs carried id 1, one returned
\* and the other raised, and a POST of id 2 returned
C2_Witness ==
    /\ \A r \in DOMAIN req : Ended(req[r])
    /\ Cardinality(Inserting(Id1)) >= 2
    /\ \E r \in Inserting(Id1) : req[r].pc = "raised"
    /\ \E r \in Inserting(Id2) : req[r].pc = "returned"

KnownMethods == {"POST", "GET", "PUT", "DELETE"}

\* C3: each method runs its own operation, and an invocation with a method
\* outside POST, GET, PUT and DELETE ends in an error, never in a return.
C3_UnsupportedMethodRaises ==
    \A r \in DOMAIN req :
        LET q == req[r]
        IN  q.pc # "idle" =>
              /\ q.stmt.kind = "INSERT" => q.method = "POST"
              /\ q.stmt.kind \in {"SELECT_ONE", "SELECT_ALL"} => q.method = "GET"
              /\ q.stmt.kind = "UPDATE" => q.method = "PUT"
              /\ q.stmt.kind = "DELETE" => q.method = "DELETE"
              /\ q.method \notin KnownMethods => q.pc = "raised"

SomeFieldFalsy(body) ==
    \/ Falsy(Get(body.first_name))
    \/ Falsy(Get(body.last_name))
    \/ Falsy(Get(body.username))

\* C4: a PUT whose JSON object lacks a non-empty first_name, last_name or
\* username ends in a missing-field error, having executed no UPDATE, and
\* changes nothing, so no row holds a null name.
C4_PutValidatesFields ==
    /\ \A r \in DOMAIN req :
        LET q == req[r]
        IN  (/\ q.method = "PUT"
             /\ q.body.kind = "object"
             /\ SomeFieldFalsy(q.body)
             /\ Ended(q))
            => /\ q.pc = "raised"
               /\ q.err.type = "ValueError"
               /\ q.trace = <<>>
    /\ \A i \in 1..Len(users) :
        /\ users[i].FIRST_NAME # None
        /\ users[i].LAST_NAME # None
        /\ users[i].USERNAME # None

\* the first of first_name, last_name, username that the body lacks
FirstMissing(body) ==
    IF Falsy(Get(body.first_name)) THEN "first_name"
    ELSE IF Falsy(Get(body.last_name)) THEN "last_name"
    ELSE "username"

\* a POST /users/1 whose JSON object lacks a required field
C5_Case(q) ==
    /\ q.method = "POST"
    /\ q.path = UserPath(Id1)
    /\ q.body.kind = "object"
    /\ SomeFieldFalsy(q.body)

ShapeIds(path) ==
    LET n == Len(path)
        shape(i, j) ==
            /\ path[i] = "users"
            /\ i = 1 \/ path[i - 1] = "/"
            /\ i + 2 <= j
            /\ path[i + 1] = "/"
            /\ \A k \in (i + 2)..j : path[k] # "/"
            /\ \A k \in (j + 1)..n : path[k] = "/"
    IN  {SubSeq(path, ij[1] + 2, ij[2]) :
            ij \in {x \in (1..n) \X (1..n) : shape(x[1], x[2])}}

MissingUserId(q) == q.pc = "raised" /\ q.err = ValueErrorMissing(<<"user_id">>)

\* what the path decides: the statement runs on the id of the path
OnPathId(q) ==
    /\ ShapeIds(q.path) = {StmtId(q.stmt)}
    /\ q.method = "GET" => q.stmt.kind = "SELECT_ONE"

\* C8 as claimed: the identifier is the last segment exactly for the paths
\* .../users/{id}; for every other path GET reads all users and POST, PUT
\* and DELETE fail with the missing user_id error.
C8_AbsentIdAlwaysMissingUserId ==
    \A r \in DOMAIN req :
        LET q == req[r]
        IN  (q.pc # "idle" /\ q.method \in KnownMethods) =>
              IF ShapeIds(q.path) = {}
              THEN IF q.method = "GET" THEN q.stmt = SelectAllStmt ELSE MissingUserId(q)
              ELSE (q.method \in {"GET", "DELETE"} \/ q.body = Ann) => OnPathId(q)

\* C8, amended: as claimed, but a POST or PUT fails with the missing user_id
\* error only when its body is not empty and parses as JSON, because the
\* body is checked first.
C8_PathIdentifier ==
    \A r \in DOMAIN req :
        LET q == req[r]
        IN  (q.pc # "idle" /\ q.method \in KnownMethods) =>
              IF ShapeIds(q.path) = {}
              THEN IF q.method = "GET" THEN q.stmt = SelectAllStmt
                   ELSE (q.method = "DELETE" \/ q.body.kind \notin {"empty", "malformed"})
                            => MissingUserId(q)
              ELSE (q.method \in {"GET", "DELETE"} \/ q.body = Ann) => OnPathId(q)

\* C8's case: a PUT on 1/users/1 has updated user 1
C8_Witness ==
    \E r \in DOMAIN req :
        /\ req[r].path = <<"1", "/", "users", "/", "1">>
        /\ req[r].method = "PUT"
        /\ req[r].pc = "returned"
        /\ req[r].rowcount = 1

PreExecutionErrors == {"KeyError", "JSONDecodeError", "ValueError", "AttributeError"}

\* C10: a POST, PUT or DELETE that fails before its statement is executed
\* raises an error of the handler's own checks, has taken no connection and
\* has changed nothing; a GET never changes the table.  (One invocation: the
\* table is the one it started on.)
C10_FailuresAndReadsChangeNothing ==
    \A r \in DOMAIN req :
        LET q == req[r]
        IN  /\ (/\ q.method \in {"POST", "PUT", "DELETE"}
                /\ q.pc = "raised"
                /\ q.err # IntegrityError)
                => /\ q.err.type \in PreExecutionErrors
                   /\ q.trace = <<>>
                   /\ ~q.conn
                   /\ q.stmt = NoStmt
                   /\ ~q.wrote
                   /\ users \in {<<>>, BobRow1}
            /\ q.method = "GET"
                => /\ ~q.wrote
                   /\ users \in {<<>>, BobRow1}

\* C10's case: a GET of user 1 has returned the user while a row is stored
C10_Witness ==
    \E r \in DOMAIN req :
        /\ req[r].method = "GET"
        /\ req[r].pc = "returned"
        /\ req[r].resp.kind = "user"
        /\ users = BobRow1

Count(t, e) == Cardinality({i \in 1..Len(t) : t[i] = e})

\* C9: never more than PoolMax connections are out; an invocation takes at
\* most one and holds it exactly from its acquire to its release; a mutating
\* invocation that returns has executed, then committed, then released; an
\* invocation that has ended, by a response or by a database error, holds
\* no connection.
C9_PoolDiscipline ==
    /\ InUse <= PoolMax
    /\ \A r \in DOMAIN req :
        LET q == req[r]
            t == q.trace
        IN  /\ Count(t, "acquire") <= 1
            /\ q.conn <=> (Count(t, "acquire") = 1 /\ Count(t, "release") = 0)
            /\ (q.stmt.kind \in {"INSERT", "UPDATE", "DELETE"} /\ q.pc = "returned")
                => t = <<"acquire", "execute", "commit", "release">>
            /\ Ended(q) => ~q.conn
            /\ (Ended(q) /\ t # <<>>) => t[Len(t)] = "release"

\* C9's case: every connection of the pool is out and an invocation waits
\* for one, while another has ended in the uniqueness error
C9_Witness ==
    /\ InUse = PoolMax
    /\ \E r \in DOMAIN req : req[r].pc = "acquire"
    /\ \E r \in DOMAIN req :
        /\ req[r].pc = "raised"
        /\ req[r].err = IntegrityError

====
